---- MODULE Spec2Model ----
(***************************************************************************)
(* Weekly competitive-intelligence report generator (generate_report.py). *)
(*                                                                         *)
(* A text is a sequence of tokens.  A token is either one character that  *)
(* the two regular expressions of the program treat specially ("#", "*",  *)
(* "[", "]", " ", "\n", "\r") or a run of ordinary characters kept whole   *)
(* ("Kayak", "New Feature:", "AI trip planner").  An ordinary run never    *)
(* starts or ends with white space and holds none of the special          *)
(* characters other than inner blanks, so matching, splitting and          *)
(* stripping on tokens is matching, splitting and stripping on the        *)
(* characters.  Lengths are counted in characters (Slice).                 *)
(***************************************************************************)
EXTENDS Integers, Sequences, FiniteSets, TLC

VARIABLES pc, latest_report, archive_report, current_report, previous_report,
          deltas, report_date, html_email, sent, updates

vars == <<pc, latest_report, archive_report, current_report, previous_report,
          deltas, report_date, html_email, sent, updates>>

(***************************************************************************)
(* Text helpers: str.strip, slicing, character classes.                    *)
(***************************************************************************)

\* Python's white space among the characters of the model: \s and str.strip.
WhiteSpace == {" ", "\n", "\r"}

IsSpace(c) == c \in WhiteSpace

RECURSIVE Slice(_, _)
\* text[:n]: the first n characters; a hard cut, inside a run if it must.
Slice(s, n) ==
    IF s = <<>> \/ n <= 0 THEN <<>>
    ELSE IF Len(Head(s)) <= n
         THEN <<Head(s)>> \o Slice(Tail(s), n - Len(Head(s)))
         ELSE <<SubSeq(Head(s), 1, n)>>

RECURSIVE LStrip(_)
LStrip(s) == IF s # <<>> /\ IsSpace(Head(s)) THEN LStrip(Tail(s)) ELSE s

RECURSIVE RStrip(_)
RStrip(s) ==
    IF s # <<>> /\ IsSpace(s[Len(s)]) THEN RStrip(SubSeq(s, 1, Len(s) - 1)) ELSE s

\* str.strip()
Strip(s) == RStrip(LStrip(s))

\* s[i:j] with 1-based inclusive start i and exclusive end j.
Cut(s, i, j) == SubSeq(s, i, j - 1)

At(s, i) == IF i >= 1 /\ i <= Len(s) THEN s[i] ELSE "<eof>"

RECURSIVE RunEnd(_, _, _)
\* The index after the longest run of characters of class cls starting at i.
RunEnd(s, i, cls) ==
    IF i <= Len(s) /\ s[i] \in cls THEN RunEnd(s, i + 1, cls) ELSE i

RECURSIVE RunEndNot(_, _, _)
\* The index after the longest run of characters not in excl starting at i.
RunEndNot(s, i, excl) ==
    IF i <= Len(s) /\ s[i] \notin excl THEN RunEndNot(s, i + 1, excl) ELSE i

(***************************************************************************)
(* Configuration.                                                          *)
(***************************************************************************)

COMPETITORS ==
    { <<"Booking.com">>, <<"Expedia">>, <<"Trip.com">>, <<"Trivago">>,
      <<"Airbnb">>, <<"Agoda">>, <<"eDreams ODIGEO">>, <<"Kayak">> }

\* 'N/A', the feature of a section without a labelled field.
NA == <<"N/A">>

\* content.strip()[:500]
ContentMax == 500

\* item['data']['content'][:300]
ExcerptMax == 300

(***************************************************************************)
(* re.split(r'##\s+\*\*?([^*#\n]+)\*\*?', report_text)                     *)
(***************************************************************************)

\* The match of the heading pattern that starts at index i, if there is one:
\* "##", white space (one or more, greedy), "*", an optional second "*", the
\* group (one or more characters other than "*", "#", "\n"), "*", an
\* optional second "*".  No shorter choice of a greedy part lets a failed
\* match succeed, so the greedy choice is the match.
HeadingMatchAt(s, i) ==
    LET ws  == i + 2
        st  == RunEnd(s, ws, WhiteSpace)
        gs  == IF At(s, st + 1) = "*" THEN st + 2 ELSE st + 1
        ge  == RunEndNot(s, gs, {"*", "#", "\n"})
        fin == IF At(s, ge + 1) = "*" THEN ge + 2 ELSE ge + 1
        ok  == /\ At(s, i) = "#"
               /\ At(s, i + 1) = "#"
               /\ st > ws
               /\ At(s, st) = "*"
               /\ ge > gs
               /\ At(s, ge) = "*"
    IN  [ok |-> ok, group |-> IF ok THEN Cut(s, gs, ge) ELSE <<>>, end |-> fin]

RECURSIVE SplitFrom(_, _, _)
\* re.split scanning at index i, the current piece starting at index p.
SplitFrom(s, p, i) ==
    IF i > Len(s) THEN <<Cut(s, p, Len(s) + 1)>>
    ELSE LET m == HeadingMatchAt(s, i)
         IN  IF m.ok
             THEN <<Cut(s, p, i), m.group>> \o SplitFrom(s, m.end, m.end)
             ELSE SplitFrom(s, p, i + 1)

\* sections = re.split(...): text, group, text, group, ..., text.
Split(s) == SplitFrom(s, 1, 1)

(***************************************************************************)
(* re.search(r'\*\*New Feature:\*\*\s*\[?([^\]\n]+)', content)             *)
(***************************************************************************)

LabelAt(c, i) ==
    /\ At(c, i) = "*"
    /\ At(c, i + 1) = "*"
    /\ At(c, i + 2) = "New Feature:"
    /\ At(c, i + 3) = "*"
    /\ At(c, i + 4) = "*"

RECURSIVE GroupStart(_, _, _)
\* Backtracking over \s*: q is the index after the white space taken, from
\* the longest run down to none (lo).  After it "[" is taken if the group can
\* start behind it, and else left to the group.  0: no match.
GroupStart(c, lo, q) ==
    IF q < lo THEN 0
    ELSE IF At(c, q) = "[" /\ q + 1 <= Len(c) /\ c[q + 1] \notin {"]", "\n"}
         THEN q + 1
         ELSE IF q <= Len(c) /\ c[q] \notin {"]", "\n"}
              THEN q
              ELSE GroupStart(c, lo, q - 1)

\* FeatureMatchAt with the group written [^\n]+: it runs to the end of the line.
FeatureMatchAt_to_line_end(c, i) ==
    LET lo == i + 5
        gs == IF LabelAt(c, i) THEN GroupStart(c, lo, RunEnd(c, lo, WhiteSpace)) ELSE 0
    IN  [ok |-> gs > 0,
         group |-> IF gs > 0 THEN Cut(c, gs, RunEndNot(c, gs, {"\n"})) ELSE <<>>]

\* The match of the feature pattern that starts at index i: group(1) of it.
FeatureMatchAt(c, i) ==
    LET lo == i + 5
        gs == IF LabelAt(c, i) THEN GroupStart(c, lo, RunEnd(c, lo, WhiteSpace)) ELSE 0
    IN  [ok |-> gs > 0,
         group |-> IF gs > 0 THEN Cut(c, gs, RunEndNot(c, gs, {"]", "\n"})) ELSE <<>>]

RECURSIVE FeatureSearchFrom(_, _)
FeatureSearchFrom(c, i) ==
    IF i > Len(c) THEN [ok |-> FALSE, group |-> <<>>]
    ELSE LET m == FeatureMatchAt(c, i)
         IN  IF m.ok THEN m ELSE FeatureSearchFrom(c, i + 1)

\* feature_match = re.search(...): the leftmost match.
FeatureSearch(c) == FeatureSearchFrom(c, 1)

(***************************************************************************)
(* extract_competitor_updates                                              *)
(***************************************************************************)

\* A snapshot is Python's dict in insertion order: a sequence of entries
\* [competitor, feature, content] with pairwise different competitors.
Keys(u) == {u[k].competitor : k \in 1..Len(u)}

IndexOf(u, name) == CHOOSE k \in 1..Len(u) : u[k].competitor = name

Lookup(u, name) == u[IndexOf(u, name)]

\* updates[competitor] = {...}: a key already there keeps its place and gets
\* the new value; a new key goes to the end.
DictSet(u, e) ==
    IF e.competitor \in Keys(u)
    THEN [u EXCEPT ![IndexOf(u, e.competitor)] = e]
    ELSE Append(u, e)

\* ExtractSection without the test "feature_match or competitor in COMPETITORS".
ExtractSection_unfiltered(u, heading, body) ==
    LET competitor    == Strip(heading)
        feature_match == FeatureSearch(body)
    IN  DictSet(u, [competitor |-> competitor,
                    feature    |-> IF feature_match.ok THEN feature_match.group ELSE NA,
                    content    |-> Slice(Strip(body), ContentMax)])

\* The loop body for sections[i], sections[i+1].
ExtractSection(u, heading, body) ==
    LET competitor    == Strip(heading)
        feature_match == FeatureSearch(body)
    IN  IF feature_match.ok \/ competitor \in COMPETITORS
        THEN DictSet(u, [competitor |-> competitor,
                         feature    |-> IF feature_match.ok THEN feature_match.group ELSE NA,
                         content    |-> Slice(Strip(body), ContentMax)])
        ELSE u

RECURSIVE ExtractLoop(_, _, _)
\* for i in range(1, len(sections), 2): if i+1 < len(sections): ...
\* (Python's index i is sections[i + 1] here).
ExtractLoop(sections, i, u) ==
    IF i + 1 > Len(sections) THEN u
    ELSE ExtractLoop(sections, i + 2,
                     IF i + 2 <= Len(sections)
                     THEN ExtractSection(u, sections[i + 1], sections[i + 2])
                     ELSE u)

extract_competitor_updates(report_text) == ExtractLoop(Split(report_text), 1, <<>>)

(***************************************************************************)
(* detect_deltas                                                           *)
(***************************************************************************)

Data(e) == [feature |-> e.feature, content |-> e.content]

\* Classify comparing the whole record, data != previous_updates[competitor].
Classify_whole_record(d, e, previous_updates) ==
    IF e.competitor \notin Keys(previous_updates)
    THEN [d EXCEPT !.new = Append(@, [competitor |-> e.competitor, data |-> Data(e)])]
    ELSE IF Data(e) # Data(Lookup(previous_updates, e.competitor))
         THEN [d EXCEPT !.updated =
                   Append(@, [competitor |-> e.competitor,
                              data       |-> Data(e),
                              previous   |-> Lookup(previous_updates, e.competitor).feature])]
         ELSE [d EXCEPT !.unchanged = Append(@, e.competitor)]

\* One turn of "for competitor, data in current_updates.items()".
Classify(d, e, previous_updates) ==
    IF e.competitor \notin Keys(previous_updates)
    THEN [d EXCEPT !.new = Append(@, [competitor |-> e.competitor, data |-> Data(e)])]
    ELSE IF e.feature # Lookup(previous_updates, e.competitor).feature
         THEN [d EXCEPT !.updated =
                   Append(@, [competitor |-> e.competitor,
                              data       |-> Data(e),
                              previous   |-> Lookup(previous_updates, e.competitor).feature])]
         ELSE [d EXCEPT !.unchanged = Append(@, e.competitor)]

NoDeltas == [new |-> <<>>, updated |-> <<>>, unchanged |-> <<>>]

RECURSIVE ClassifyLoop(_, _, _, _)
ClassifyLoop(current_updates, previous_updates, k, d) ==
    IF k > Len(current_updates) THEN d
    ELSE ClassifyLoop(current_updates, previous_updates, k + 1,
                      Classify(d, current_updates[k], previous_updates))

\* PreviousUpdates with the test inverted, "if not previous_report".
PreviousUpdates_inverted(previous_report_text) ==
    IF previous_report_text = <<>>
    THEN extract_competitor_updates(previous_report_text)
    ELSE <<>>

\* "if previous_report else {}": the empty string is falsy.
PreviousUpdates(previous_report_text) ==
    IF previous_report_text # <<>>
    THEN extract_competitor_updates(previous_report_text)
    ELSE <<>>

\* detect_deltas with the two reports taken for each other.
detect_deltas_swapped(current_report_text, previous_report_text) ==
    ClassifyLoop(extract_competitor_updates(previous_report_text),
                 PreviousUpdates(current_report_text), 1, NoDeltas)

detect_deltas(current_report_text, previous_report_text) ==
    ClassifyLoop(extract_competitor_updates(current_report_text),
                 PreviousUpdates(previous_report_text), 1, NoDeltas)

(***************************************************************************)
(* format_email_html: the document as the sequence of its blocks, each     *)
(* with the values the f-string puts into it.                              *)
(***************************************************************************)

\* HeaderBlock from a string that is no f-string: the placeholder is kept.
HeaderBlock_not_formatted(date) == [block |-> "header", report_date |-> "{report_date}"]

HeaderBlock(date) == [block |-> "header", report_date |-> date]

SummaryBlock(d) ==
    [block |-> "summary", new |-> Len(d.new), updated |-> Len(d.updated),
     unchanged |-> Len(d.unchanged)]

NewBlock(item) ==
    [block |-> "competitor", badge |-> "NEW", competitor |-> item.competitor,
     feature |-> item.data.feature,
     content |-> Slice(item.data.content, ExcerptMax)]

UpdatedBlock(item) ==
    [block |-> "competitor", badge |-> "UPDATED", competitor |-> item.competitor,
     feature |-> item.data.feature, previous |-> item.previous,
     content |-> Slice(item.data.content, ExcerptMax)]

NoChangesBlock == [block |-> "no-changes"]

FooterBlock == [block |-> "footer"]

\* has_changes counting the unchanged entities as well.
has_changes_any(d) == Len(d.new) > 0 \/ Len(d.updated) > 0 \/ Len(d.unchanged) > 0

has_changes(d) == Len(d.new) > 0 \/ Len(d.updated) > 0

format_email_html(d, date) ==
    <<HeaderBlock(date)>>
    \o (IF has_changes(d)
        THEN <<SummaryBlock(d)>>
             \o [k \in 1..Len(d.new) |-> NewBlock(d.new[k])]
             \o [k \in 1..Len(d.updated) |-> UpdatedBlock(d.updated[k])]
        ELSE <<NoChangesBlock>>)
    \o <<FooterBlock>>

\* msg['Subject'] counts the new and the updated; the html is attached.
Message(html, d) == [updates |-> Len(d.new) + Len(d.updated), html |-> html]

(***************************************************************************)
(* The files under reports/.                                               *)
(***************************************************************************)

NoFile == [exists |-> FALSE, text |-> <<>>]

File(text) == [exists |-> TRUE, text |-> text]

RECURSIVE UniversalNewlines(_)
\* read_text opens in text mode with newline=None: "\r\n" and "\r" are read
\* as "\n".  (write_text on POSIX writes the characters as they are.)
UniversalNewlines(s) ==
    IF s = <<>> THEN <<>>
    ELSE IF Head(s) = "\r"
         THEN <<"\n">> \o UniversalNewlines(IF Len(s) >= 2 /\ s[2] = "\n"
                                            THEN Tail(Tail(s)) ELSE Tail(s))
         ELSE <<Head(s)>> \o UniversalNewlines(Tail(s))

\* load_previous_report's result for the file as it is.
LoadResult(file) == IF file.exists THEN UniversalNewlines(file.text) ELSE <<>>

(***************************************************************************)
(* The reports the text source may return.                                 *)
(***************************************************************************)

\* The most sections of a generated report.
MaxSections == 2

\* The most pieces of the body of a one-section document.
MaxBodyLen == 4

RECURSIVE Flatten(_)
Flatten(ss) == IF ss = <<>> THEN <<>> ELSE Head(ss) \o Flatten(Tail(ss))

RECURSIVE Join(_)
\* The texts of ss, a line break between two of them.
Join(ss) ==
    IF ss = <<>> THEN <<>>
    ELSE IF Len(ss) = 1 THEN Head(ss)
         ELSE Head(ss) \o <<"\n">> \o Join(Tail(ss))

SeqsUpTo(S, n) == UNION {[1..k -> S] : k \in 0..n}

Label == <<"*", "*", "New Feature:", "*", "*">>

\* "## **name**", the heading the splitter looks for.
Emphasized(name) == <<"#", "#", " ", "*", "*">> \o name \o <<"*", "*">>

\* "## name", the heading of the prompt's template.
Plain(name) == <<"#", "#", " ">> \o name

\* "## *name*"
SingleStar(name) == <<"#", "#", " ", "*">> \o name \o <<"*">>

\* "## ** name **"
Padded(name) == <<"#", "#", " ", "*", "*", " ">> \o name \o <<" ", "*", "*">>

Kayak == <<"Kayak">>

Expedia == <<"Expedia">>

Overview == <<"Overview">>

Field(feature) == Label \o <<" ", "[", feature, "]">>

\* "## **Kayak**\n**New Feature:** [AI trip planner]\nBody text."
ScenarioA ==
    Emphasized(Kayak) \o <<"\n">> \o Field("AI trip planner") \o <<"\n", "Body text.">>

\* The same report with "\r\n" line ends and the field without brackets.
CrLfReport ==
    Emphasized(Kayak) \o <<"\r", "\n">> \o Label \o <<" ", "AI trip planner", "\r", "\n", "Body text.">>

ReportSections ==
    { ScenarioA,
      Emphasized(Kayak) \o <<"\n">> \o Field("Smart itinerary builder") \o <<"\n", "Body text.">>,
      Emphasized(Kayak) \o <<"\n">> \o Field("AI trip planner") \o <<"\n", "Other text.">>,
      Emphasized(Kayak) \o <<"\n", "Body text.">>,
      Emphasized(Expedia) \o <<"\n">> \o Field("AI trip planner") \o <<"\n", "Body text.">> }

\* Sections that are no entity's: an emphasized and a plain stray heading, and
\* a heading outside the allowlist with a labelled field.
OtherSections ==
    { Emphasized(Overview) \o <<"\n", "Body text.">>,
      Plain(Overview) \o <<"\n", "Body text.">>,
      Emphasized(Overview) \o <<"\n">> \o Field("AI trip planner") }

\* The reports of the weekly runs: up to MaxSections sections, and one report
\* with "\r\n" line ends.
Reports == {Join(ss) : ss \in SeqsUpTo(ReportSections, MaxSections)} \cup {CrLfReport}

BodyPieces == { <<"\n">>, <<" ">>, <<"[">>, <<"]">>, Label, <<"AI trip planner">> }

Bodies == {Flatten(ps) : ps \in SeqsUpTo(BodyPieces, MaxBodyLen)}

HeadingNames == {Kayak, Overview}

Headings ==
    UNION {{Emphasized(n), Plain(n), SingleStar(n), Padded(n)} : n \in HeadingNames}

\* The documents extract_competitor_updates is applied to: the reports, the
\* reports with stray sections among the entities', and every heading
\* followed by every body.
Documents ==
    Reports
    \cup {Join(ss) : ss \in SeqsUpTo(ReportSections \cup OtherSections, MaxSections)}
    \cup {h \o b : h \in Headings, b \in Bodies}

\* datetime.now().strftime('%B %d, %Y')
Dates == {"November 04, 2026", "November 11, 2026"}

(***************************************************************************)
(* main: one run is generate_ci_report, load_previous_report,              *)
(* detect_deltas, save_current_report, format_email_html and send_email.   *)
(* pc names the call main makes next; an exception in a call ends the run. *)
(***************************************************************************)

\* MainOrder with the report saved before the previous one is loaded.
MainOrder_save_first == <<"generate", "save", "load", "detect", "send">>

\* The calls of main in the order it makes them.
MainOrder == <<"generate", "load", "detect", "save", "send">>

\* Where main stands when the call named step has returned.
After(step) ==
    LET k == CHOOSE j \in 1..Len(MainOrder) : MainOrder[j] = step
    IN  IF k < Len(MainOrder) THEN MainOrder[k + 1] ELSE "done"

NoDate == "<unset>"

Init ==
    /\ pc = MainOrder[1]
    /\ latest_report = NoFile
    /\ archive_report = NoFile
    /\ updates = <<>>
    /\ current_report = <<>>
    /\ previous_report = <<>>
    /\ deltas = NoDeltas
    /\ report_date = NoDate
    /\ html_email = <<>>
    /\ sent = <<>>

\* current_report = generate_ci_report(): the text of the answer.
generate_ci_report ==
    /\ pc = "generate"
    /\ \E text \in Reports : current_report' = text
    /\ pc' = After("generate")
    /\ UNCHANGED <<latest_report, archive_report, previous_report, deltas,
                   report_date, html_email, sent, updates>>

\* The request raises (no key, no network, an answer without a text block).
generate_ci_report_raises ==
    /\ pc = "generate"
    /\ pc' = "failed"
    /\ UNCHANGED <<latest_report, archive_report, current_report, previous_report,
                   deltas, report_date, html_email, sent, updates>>

load_previous_report ==
    /\ pc = "load"
    /\ previous_report' = LoadResult(latest_report)
    /\ pc' = After("load")
    /\ UNCHANGED <<latest_report, archive_report, current_report, deltas,
                   report_date, html_email, sent, updates>>

\* read_text raises (the file is no UTF-8 text, no permission).
load_previous_report_raises ==
    /\ pc = "load"
    /\ latest_report.exists
    /\ pc' = "failed"
    /\ UNCHANGED <<latest_report, archive_report, current_report, previous_report,
                   deltas, report_date, html_email, sent, updates>>

\* deltas = detect_deltas(current_report, previous_report)
detect_deltas_call ==
    /\ pc = "detect"
    /\ deltas' = detect_deltas(current_report, previous_report)
    /\ pc' = After("detect")
    /\ UNCHANGED <<latest_report, archive_report, current_report, previous_report,
                   report_date, html_email, sent, updates>>

\* The call does not return (the process is interrupted or out of memory).
detect_deltas_raises ==
    /\ pc = "detect"
    /\ pc' = "failed"
    /\ UNCHANGED <<latest_report, archive_report, current_report, previous_report,
                   deltas, report_date, html_email, sent, updates>>

\* Both files are written: latest_report.md, then the archive of the day.
save_current_report ==
    /\ pc = "save"
    /\ latest_report' = File(current_report)
    /\ archive_report' = File(current_report)
    /\ pc' = After("save")
    /\ UNCHANGED <<current_report, previous_report, deltas, report_date,
                   html_email, sent, updates>>

\* mkdir raises (reports is not a directory, no permission): nothing is written.
save_current_report_raises ==
    /\ pc = "save"
    /\ pc' = "failed"
    /\ UNCHANGED <<latest_report, archive_report, current_report, previous_report,
                   deltas, report_date, html_email, sent, updates>>

\* report_date = datetime.now().strftime(...);
\* html_email = format_email_html(deltas, report_date); send_email(html_email, deltas)
send_email ==
    /\ pc = "send"
    /\ report_date' \in Dates
    /\ html_email' = format_email_html(deltas, report_date')
    /\ sent' = <<Message(html_email', deltas)>>
    /\ pc' = After("send")
    /\ UNCHANGED <<latest_report, archive_report, current_report, previous_report,
                   deltas, updates>>

\* The SMTP login or delivery raises: the message is built and not sent.
send_email_raises ==
    /\ pc = "send"
    /\ report_date' \in Dates
    /\ html_email' = format_email_html(deltas, report_date')
    /\ pc' = "failed"
    /\ UNCHANGED <<latest_report, archive_report, current_report, previous_report,
                   deltas, sent, updates>>

\* The next scheduled run: a new process, the files as the last run left them.
main ==
    /\ pc \in {"done", "failed"}
    /\ pc' = MainOrder[1]
    /\ current_report' = <<>>
    /\ previous_report' = <<>>
    /\ deltas' = NoDeltas
    /\ report_date' = NoDate
    /\ html_email' = <<>>
    /\ sent' = <<>>
    /\ UNCHANGED <<latest_report, archive_report, updates>>

Next ==
    \/ generate_ci_report
    \/ generate_ci_report_raises
    \/ load_previous_report
    \/ load_previous_report_raises
    \/ detect_deltas_call
    \/ detect_deltas_raises
    \/ save_current_report
    \/ save_current_report_raises
    \/ send_email
    \/ send_email_raises
    \/ main

Spec == Init /\ [][Next]_vars

(***************************************************************************)
(* extract_competitor_updates applied to one document.                     *)
(***************************************************************************)

InitExtract ==
    /\ pc = "input"
    /\ current_report \in Documents
    /\ latest_report = NoFile
    /\ archive_report = NoFile
    /\ updates = <<>>
    /\ previous_report = <<>>
    /\ deltas = NoDeltas
    /\ report_date = NoDate
    /\ html_email = <<>>
    /\ sent = <<>>

\* updates = extract_competitor_updates(report_text)
Extract ==
    /\ pc = "input"
    /\ updates' = extract_competitor_updates(current_report)
    /\ pc' = "extracted"
    /\ UNCHANGED <<latest_report, archive_report, current_report, previous_report,
                   deltas, report_date, html_email, sent>>

NextExtract == Extract

SpecExtract == InitExtract /\ [][NextExtract]_vars

(***************************************************************************)
(* Properties of detect_deltas, checked where main has just called it      *)
(* (pc = "save": current_report and previous_report are its arguments,     *)
(* deltas its result, latest_report still the file that was loaded).       *)
(***************************************************************************)

Detected == pc = "save"

\* The two snapshots detect_deltas compares.
CurrentSnapshot == extract_competitor_updates(current_report)

PreviousSnapshot == PreviousUpdates(previous_report)

Names(u) == [k \in 1..Len(u) |-> u[k].competitor]

Competitors(items) == [k \in 1..Len(items) |-> items[k].competitor]

Range(f) == {f[k] : k \in DOMAIN f}

\* C1: detect_deltas puts every entity of the current snapshot C in exactly
\* one bucket, each bucket in C's order: new holds the entities whose name is
\* no key of the previous snapshot P; updated holds, with P's feature, those
\* whose name is in P with another feature (content ignored, 'N/A' a value
\* like any other); unchanged holds the names in P with the same feature.  A
\* name that only P has is in no bucket.
C1_Buckets ==
    Detected =>
        LET C == CurrentSnapshot
            P == PreviousSnapshot
            IsNew(e) == e.competitor \notin Keys(P)
            IsUpdated(e) ==
                /\ e.competitor \in Keys(P)
                /\ e.feature # Lookup(P, e.competitor).feature
            IsUnchanged(e) ==
                /\ e.competitor \in Keys(P)
                /\ e.feature = Lookup(P, e.competitor).feature
            news == SelectSeq(C, IsNew)
            upds == SelectSeq(C, IsUpdated)
            same == SelectSeq(C, IsUnchanged)
        IN  /\ deltas.new =
                   [k \in 1..Len(news) |->
                       [competitor |-> news[k].competitor, data |-> Data(news[k])]]
            /\ deltas.updated =
                   [k \in 1..Len(upds) |->
                       [competitor |-> upds[k].competitor, data |-> Data(upds[k]),
                        previous |-> Lookup(P, upds[k].competitor).feature]]
            /\ deltas.unchanged = Names(same)
            /\ Len(deltas.new) + Len(deltas.updated) + Len(deltas.unchanged) = Len(C)
            /\ \A n \in Keys(P) \ Keys(C) :
                   n \notin Range(Competitors(deltas.new))
                            \cup Range(Competitors(deltas.updated))
                            \cup Range(deltas.unchanged)

\* C1's case: an entity is updated from 'N/A', and the previous snapshot has
\* a name the current one has not.
C1_Witness ==
    /\ Detected
    /\ Len(deltas.updated) = 1
    /\ deltas.updated[1].previous = NA
    /\ Keys(PreviousSnapshot) \ Keys(CurrentSnapshot) # {}

\* C3: a report whose snapshot is not empty, compared with itself, has
\* nothing new, nothing updated, and all its names unchanged, in order.
C3_Identity ==
    (Detected /\ previous_report = current_report /\ CurrentSnapshot # <<>>) =>
        /\ deltas.new = <<>>
        /\ deltas.updated = <<>>
        /\ deltas.unchanged = Names(CurrentSnapshot)

C3_Witness ==
    /\ Detected
    /\ previous_report = current_report
    /\ Len(deltas.unchanged) = 2

\* C4: with no previous report load_previous_report returns the empty string
\* and detect_deltas puts every entity of the current snapshot in new, and
\* nothing in updated and unchanged.
C4_FirstRun ==
    (Detected /\ ~latest_report.exists) =>
        /\ previous_report = <<>>
        /\ Competitors(deltas.new) = Names(CurrentSnapshot)
        /\ \A k \in 1..Len(deltas.new) : deltas.new[k].data = Data(CurrentSnapshot[k])
        /\ deltas.updated = <<>>
        /\ deltas.unchanged = <<>>

C4_Witness ==
    /\ Detected
    /\ ~latest_report.exists
    /\ Len(deltas.new) = 2

\* The text of Scenario A's section below its heading, trimmed.
ScenarioABody == Field("AI trip planner") \o <<"\n", "Body text.">>

\* C7 as stated: Scenario A's report with no previous report gives one record,
\* Kayak, with the feature "AI trip planner" and the content "Body text.",
\* and it is new.
C7_Original ==
    (Detected /\ current_report = ScenarioA /\ ~latest_report.exists) =>
        deltas = [new |-> <<[competitor |-> Kayak,
                             data |-> [feature |-> <<"AI trip planner">>,
                                       content |-> <<"Body text.">>]]>>,
                  updated |-> <<>>,
                  unchanged |-> <<>>]

\* C7 amended: the record's content is the whole trimmed text below the
\* heading, the labelled line included:
\* "**New Feature:** [AI trip planner]\nBody text.".
C7_ScenarioA ==
    (Detected /\ current_report = ScenarioA /\ ~latest_report.exists) =>
        deltas = [new |-> <<[competitor |-> Kayak,
                             data |-> [feature |-> <<"AI trip planner">>,
                                       content |-> ScenarioABody]]>>,
                  updated |-> <<>>,
                  unchanged |-> <<>>]

C7_Witness ==
    /\ Detected
    /\ current_report = ScenarioA
    /\ ~latest_report.exists
    /\ Len(deltas.new) = 1

(***************************************************************************)
(* Properties of format_email_html, checked once main has called it        *)
(* (html_email is its result for deltas and report_date).                  *)
(***************************************************************************)

Rendered == html_email # <<>>

Blocks(kind) == SelectSeq(html_email, LAMBDA b : b.block = kind)

HasCounts ==
    \E k \in 1..Len(html_email) :
        /\ html_email[k].block = "summary"
        /\ html_email[k].new = Len(deltas.new)
        /\ html_email[k].updated = Len(deltas.updated)
        /\ html_email[k].unchanged = Len(deltas.unchanged)

HasPeriodLabel ==
    \E k \in 1..Len(html_email) :
        /\ html_email[k].block = "header"
        /\ html_email[k].report_date = report_date

\* C5 as stated: every payload holds the three counts and the period label.
C5_Original == Rendered => (HasCounts /\ HasPeriodLabel)

\* C5 amended: every payload holds the period label; it holds the three
\* counts when new or updated is not empty, and no count when both are.
C5_CountsAndLabel ==
    Rendered =>
        /\ HasPeriodLabel
        /\ HasCounts <=> (deltas.new # <<>> \/ deltas.updated # <<>>)
        /\ (deltas.new = <<>> /\ deltas.updated = <<>>) => Blocks("summary") = <<>>

\* C5's case: a payload for deltas with unchanged entities only.
C5_Witness ==
    /\ Rendered
    /\ deltas.new = <<>>
    /\ deltas.updated = <<>>
    /\ deltas.unchanged # <<>>
    /\ report_date \in Dates

\* C6: the payload holds the one "no changes" block and no detail block
\* exactly when new and updated are both empty, whatever unchanged holds;
\* otherwise no "no changes" block and one detail block for each entity of
\* new, in order, followed by one for each entity of updated, in order.
C6_DetailBlocks ==
    Rendered =>
        LET details == Blocks("competitor")
            n == Len(deltas.new)
            u == Len(deltas.updated)
        IN  IF n = 0 /\ u = 0
            THEN /\ Len(Blocks("no-changes")) = 1
                 /\ details = <<>>
            ELSE /\ Blocks("no-changes") = <<>>
                 /\ Len(details) = n + u
                 /\ \A k \in 1..n :
                        /\ details[k].badge = "NEW"
                        /\ details[k].competitor = deltas.new[k].competitor
                        /\ details[k].feature = deltas.new[k].data.feature
                 /\ \A k \in 1..u :
                        /\ details[n + k].badge = "UPDATED"
                        /\ details[n + k].competitor = deltas.updated[k].competitor
                        /\ details[n + k].feature = deltas.updated[k].data.feature
                        /\ details[n + k].previous = deltas.updated[k].previous

\* C6's case: a payload with a detail block for a new entity and one for an
\* updated entity.
C6_Witness ==
    /\ Rendered
    /\ Len(deltas.new) = 1
    /\ Len(deltas.updated) = 1
    /\ Len(Blocks("competitor")) = 2

(***************************************************************************)
(* The order of main's calls.                                              *)
(***************************************************************************)

Stored == latest_report

\* C10: main calls generate_ci_report, load_previous_report, detect_deltas,
\* save_current_report, send_email in this order, each after the one before
\* returned.  latest_report.md changes only in save_current_report, after it
\* was read in the same run, and to the generated text as it is; a failed
\* generation leaves it as it was and sends nothing; a message is sent, or
\* the sending fails, only with the current report already saved.
C10_Order ==
    [][ /\ pc' # pc =>
              <<pc, pc'>> \in { <<"generate", "load">>, <<"load", "detect">>,
                                <<"detect", "save">>, <<"save", "send">>,
                                <<"send", "done">>, <<"generate", "failed">>,
                                <<"load", "failed">>, <<"detect", "failed">>,
                                <<"save", "failed">>, <<"send", "failed">>,
                                <<"done", "generate">>, <<"failed", "generate">> }
        /\ Stored' # Stored =>
              /\ pc = "save" /\ pc' = "send"
              /\ previous_report = LoadResult(Stored)
              /\ Stored' = File(current_report)
        /\ (pc' = "failed" /\ pc \in {"generate", "load", "detect"}) =>
              /\ Stored' = Stored
              /\ sent' = <<>>
        /\ (pc = "send" /\ pc' # pc) =>
              /\ Stored = File(current_report)
              /\ Stored' = Stored
        /\ sent' # sent /\ sent' # <<>> => pc = "send"
      ]_vars

\* C10's case: the sending failed, with the current report already saved in
\* place of another one.
C10_Witness ==
    /\ pc = "failed"
    /\ html_email # <<>>
    /\ sent = <<>>
    /\ latest_report = File(current_report)
    /\ previous_report # <<>>
    /\ previous_report # current_report

(***************************************************************************)
(* Properties of extract_competitor_updates, checked where it has been     *)
(* applied (SpecExtract: updates is its result for current_report).        *)
(***************************************************************************)

Extracted == pc = "extracted"

\* C2: a document with the one heading "## **n**" gives the snapshot that the
\* same document with the heading "## n" gives.
C2_Original ==
    Extracted =>
        \A n \in HeadingNames :
            LET h    == Emphasized(n)
                body == SubSeq(current_report, Len(h) + 1, Len(current_report))
            IN  (/\ Len(current_report) >= Len(h)
                 /\ SubSeq(current_report, 1, Len(h)) = h
                 /\ "#" \notin Range(body))
                => updates = extract_competitor_updates(Plain(n) \o body)

HasLabel(c) == \E i \in 1..Len(c) : LabelAt(c, i)

\* The feature summary as C8 words it: the text behind the first label up to
\* the next line break or closing bracket, brackets and white space around it
\* stripped.
SummaryAsStated(c) ==
    LET i    == CHOOSE j \in 1..Len(c) : LabelAt(c, j) /\ \A m \in 1..(j - 1) : ~LabelAt(c, m)
        rest == SubSeq(c, i + 5, Len(c))
        upto == Strip(Cut(rest, 1, RunEndNot(rest, 1, {"\n", "]"})))
        open == IF upto # <<>> /\ Head(upto) = "[" THEN Tail(upto) ELSE upto
    IN  Strip(open)

\* C8: every record's feature is the text behind the label of its section up
\* to the next line break or closing bracket, stripped of brackets and white
\* space; it is 'N/A' when the section has no label, and only then; it is
\* never empty.  (A record's content is its section's text, trimmed.  Where
\* the label is there and the text behind it is empty, the two halves of the
\* claim ask for different things; 'N/A' is accepted there.)
C8_Original ==
    Extracted =>
        \A k \in 1..Len(updates) :
            LET e == updates[k]
            IN  /\ e.feature # <<>>
                /\ ~HasLabel(e.content) => e.feature = NA
                /\ HasLabel(e.content) =>
                       e.feature = IF SummaryAsStated(e.content) = <<>>
                                   THEN NA
                                   ELSE SummaryAsStated(e.content)
                /\ "\n" \notin Range(e.feature)
                /\ Strip(e.feature) = e.feature

\* The heading and body pairs of a document, as the splitter finds them.
Sections(doc) ==
    LET parts == Split(doc)
    IN  [k \in 1..((Len(parts) - 1) \div 2) |->
            [heading |-> parts[2 * k], body |-> parts[2 * k + 1]]]

\* A section with no labelled field and a heading outside the allowlist.
Stray(sec) == ~FeatureSearch(sec.body).ok /\ Strip(sec.heading) \notin COMPETITORS

RECURSIVE SnapshotOf(_, _)
\* The snapshot of the sections secs, from u on.
SnapshotOf(secs, u) ==
    IF secs = <<>> THEN u
    ELSE SnapshotOf(Tail(secs), ExtractSection(u, Head(secs).heading, Head(secs).body))

Without(secs, k) == SubSeq(secs, 1, k - 1) \o SubSeq(secs, k + 1, Len(secs))

RECURSIVE HeadingStarts(_, _)
\* Where the headings the splitter finds start, from index i on.
HeadingStarts(doc, i) ==
    IF i > Len(doc) THEN <<>>
    ELSE LET m == HeadingMatchAt(doc, i)
         IN  IF m.ok THEN <<i>> \o HeadingStarts(doc, m.end)
             ELSE HeadingStarts(doc, i + 1)

\* The document with the text of its k-th section, heading and body, cut out.
DocumentWithout(doc, k) ==
    LET starts == HeadingStarts(doc, 1)
        next   == IF k < Len(starts) THEN starts[k + 1] ELSE Len(doc) + 1
    IN  Cut(doc, 1, starts[k]) \o Cut(doc, next, Len(doc) + 1)

====
